---- MODULE Spec2Model ----
(***************************************************************************)
(* A model of runsit's task supervision engine (runsit.go): one Task with  *)
(* its control loop, the restart procedure, the child processes, the       *)
(* listening ports handed to the children and the failure history.         *)
(***************************************************************************)
EXTENDS Integers, Sequences, FiniteSets, TLC

\* ------------------------------------------------------------------ bounds
\* Number of instances a task may start in one behaviour.
MaxInst == 3
\* Number of goroutines blocked in Task.Update or Task.Stop at one time.
MaxSenders == 1
\* Number of synthetic exit reports fed to the failure history (SpecHistory).
MaxReports == 7

\* Number of lines added to an output buffer on top of its first content.
MaxAdds == 4
\* Number of writes to the system log.
MaxWrites == 3
\* Number of goroutines calling into the task registry, or querying a task.
MaxCallers == 2
\* Number of queries made of a task in one behaviour.
MaxQueries == 2
\* Number of named ports a config may have.
MaxPorts == 4

\* ------------------------------------------------------- program constants
keepFailures == 5
maxKeepLines == 5000
systemLogSize == 65536

\* t.running == nil, t.config == nil
NoInstance == 0
NoConfig == "nil"

\* os.Getenv("USER")
curUser == "me"

\* ------------------------------------------------------------- the inputs
\* The named ports a config may ask for (name and address together).
PortNames == {"web"}

\* jsonconfig.Obj values the config directory may hold.  user "" is the
\* default; badPort names the port whose value is neither number nor string
\* ("" = none); valid is the result of jc.Validate() (FALSE: e.g. the
\* required "binary" is missing).
Configs ==
  [ plain     |-> [user |-> "",     ports |-> {},             badPort |-> "",    valid |-> TRUE],
    web       |-> [user |-> "me",   ports |-> {"web"},        badPort |-> "",    valid |-> TRUE],
    webnobin  |-> [user |-> "",     ports |-> {"web"},        badPort |-> "",    valid |-> FALSE],
    otheruser |-> [user |-> "root", ports |-> {},             badPort |-> "",    valid |-> TRUE],
    badport   |-> [user |-> "",     ports |-> {"web"},        badPort |-> "web", valid |-> TRUE] ]

ConfigNames == DOMAIN Configs

\* The task files an update event may name: one per config, and one that
\* does not parse.
TaskFiles == ConfigNames \cup {"garbage"}

\* jsonconfig.ReadFile: the config of the file, or an error.
ReadFile(tf) == IF tf \in ConfigNames THEN [err |-> FALSE, jc |-> tf]
                                      ELSE [err |-> TRUE, jc |-> NoConfig]

\* The orders in which `range ports` may visit a set of ports.
RECURSIVE Perms(_)
Perms(S) == IF S = {} THEN {<<>>}
            ELSE UNION {{<<p>> \o q : q \in Perms(S \ {p})} : p \in S}

\* What the operating system does to one run of the restart procedure: the
\* step it makes fail (at most one matters, the first failure returns), the
\* index of the port a listen/File failure hits, and the iteration order of
\* the ports map.
Faults == {"none", "listen", "file", "stat", "stdoutpipe", "stderrpipe", "start"}
EnvTable ==
  [jc \in ConfigNames \cup {NoConfig} |->
    IF jc = NoConfig THEN {[fault |-> "none", at |-> 1, order |-> <<>>]}
    ELSE {e \in [fault : Faults, at : 1..Cardinality(PortNames), order : Perms(Configs[jc].ports)] :
            IF e.fault \in {"listen", "file"} THEN e.at <= Len(e.order) ELSE e.at = 1}]
EnvsOf(jc) == EnvTable[jc]

\* cmd.Wait() results: nil, or an *exec.ExitError (non-zero exit, signal).
ExitErrs == {"nil", "exit"}

VARIABLES
  config,     \* Task.config: NoConfig or the name of the last valid config
  running,    \* Task.running: NoInstance or an instance
  failures,   \* Task.failures: sequence of instances, oldest first
  inst,       \* the TaskInstances and their processes
  supFds,     \* ports on which the supervisor holds an open descriptor
  controlc,   \* Task.controlc: the messages of the goroutines blocked sending
  panicked,   \* the supervisor process died of a panic
  cm,         \* Task.loop's cm: the message the control loop received last
  reported,   \* history: the instances of the exit reports processed so far
  emitted,    \* history: the task files of the update events, in emission order
  stopped,    \* history: the instances that were killed on a stopMessage
  spawn,      \* one run of the restart procedure: its ports loop and the start
  pc,         \* where the caller of Status, Failures or killTask stands
  resCh,      \* the caller's reply channel (buffer of one value)
  ret,        \* what the caller got last
  form,       \* the "pid" form value of the caller's kill request
  snap,       \* history: the elements of the failure list when it was handed out
  lines,      \* TaskOutput.lines of one instance: the list of Lines
  appended,   \* history: the Lines given to TaskOutput.Add, in the order of the lock
  pipes,      \* the watchPipe goroutines of the instance, one per stream
  logBuf,     \* the system log: logBuffer's i, full and buf
  ntot,       \* what the last logBuffer.Write returned
  written,    \* history: all bytes written to the system log
  writes,     \* history: the number of writes to the system log
  tasks,      \* the registry: task name -> Task (NoTask: no entry)
  tasksMu,    \* the registry's mutex: the goroutine holding it, or 0
  rc,         \* the goroutines calling into the registry
  made,       \* history: the number of Tasks NewTask made of each name
  given,      \* history: the <<name, Task>> pairs the registry returned
  chans,      \* the reply channels made so far: the values each one buffers
  sends,      \* history: the number of sends on each reply channel
  nmade,      \* the number of reply channels made so far
  qc          \* the goroutines inside Status, RunningInstance or Failures

\* The caller of the task's queries.
callerVars == <<pc, resCh, ret, form, snap>>

\* The output buffer of one instance.
outputVars == <<lines, appended, pipes>>

\* The system log.
logVars == <<logBuf, ntot, written, writes>>

\* The task registry and its callers.
registryVars == <<tasks, tasksMu, rc, made, given>>

\* The reply channels of the queries and the goroutines waiting on them.
replyVars == <<chans, sends, nmade, qc>>

\* The data structures beside the Task.
dataVars == <<outputVars, logVars, registryVars, replyVars>>

\* The variables outside the Task and its processes.
aux == <<emitted, stopped, spawn, callerVars, dataVars>>

\* The Task and its processes.
taskVars == <<config, running, failures, inst, supFds, controlc, panicked, cm, reported>>

vars == <<taskVars, aux>>

Instances == 1..MaxInst

\* A TaskInstance: st is "none" (not created), "alive" (process started and
\* not terminated) or "dead" (terminated, cmd.Wait returned); killed: the
\* supervisor sent it SIGKILL; fds: the listening sockets the process holds
\* (cmd.ExtraFiles, inherited at the start and closed by its termination).
NoInst == [st |-> "none", killed |-> FALSE, fds |-> {}]

\* The state the control loop works on.
World == [config |-> config, running |-> running, failures |-> failures,
          inst |-> inst, supFds |-> supFds, panicked |-> panicked]

\* The instance the next successful start creates.
NextId(w) == Cardinality({i \in Instances : w.inst[i].st # "none"}) + 1

\* A listening socket stays bound while any process holds a descriptor of
\* it: the supervisor, or a child that inherited it and has not terminated.
Held(w, p) ==
  \/ p \in w.supFds
  \/ \E i \in Instances : p \in w.inst[i].fds

\* stop, dropping the config when nothing runs.
stopClearsConfig(w) ==
  IF w.running = NoInstance THEN [w EXCEPT !.config = NoConfig]
  ELSE [w EXCEPT !.inst[w.running].killed = TRUE, !.running = NoInstance]

\* stop, forgetting the kill: the instance is only dropped.
stopNoKill(w) == [w EXCEPT !.running = NoInstance]

\* stop, entering the stopped instance into the failure history at once.
stopRecordsFailure(w) ==
  IF w.running = NoInstance THEN w
  ELSE [w EXCEPT !.inst[w.running].killed = TRUE, !.running = NoInstance,
                 !.failures = Append(@, w.running)]

\* stop, dropping the config with the instance.
stopDropsConfig(w) ==
  IF w.running = NoInstance THEN w
  ELSE [w EXCEPT !.inst[w.running].killed = TRUE, !.running = NoInstance,
                 !.config = NoConfig]

\* Task.stop
stop(w) ==
  IF w.running = NoInstance THEN w
  ELSE [w EXCEPT !.inst[w.running].killed = TRUE, !.running = NoInstance]

\* The ports loop, going on to the next port after a port that fails.
RECURSIVE openPortsSkipFailed(_, _, _, _, _)
openPortsSkipFailed(w, jc, e, k, opened) ==
  IF k > Len(e.order) THEN [w |-> w, ok |-> TRUE, opened |-> opened]
  ELSE LET p == e.order[k] IN
    IF \/ Configs[jc].badPort = p
       \/ Held(w, p)
       \/ (e.fault \in {"listen", "file"} /\ e.at = k)
      THEN openPortsSkipFailed(w, jc, e, k + 1, opened)
    ELSE openPortsSkipFailed([w EXCEPT !.supFds = @ \cup {p}], jc, e, k + 1, opened \cup {p})

\* The ports loop of updateFromConfig from the k-th port of the order on.
\* Returns the world and whether the loop completed; opened is the set of
\* extraFiles so far.
RECURSIVE openPorts(_, _, _, _, _)
openPorts(w, jc, e, k, opened) ==
  IF k > Len(e.order) THEN [w |-> w, ok |-> TRUE, opened |-> opened]
  ELSE LET p == e.order[k] IN
    IF Configs[jc].badPort = p
      THEN [w |-> w,
            ok |-> FALSE, opened |-> opened]
    ELSE IF Held(w, p) \/ (e.fault = "listen" /\ e.at = k)
      THEN [w |-> w, ok |-> FALSE, opened |-> opened]
    ELSE IF e.fault = "file" /\ e.at = k
      \* ln stays open: the return skips ln.Close()
      THEN [w |-> [w EXCEPT !.supFds = @ \cup {p}],
            ok |-> FALSE, opened |-> opened]
    ELSE openPorts([w EXCEPT !.supFds = @ \cup {p}], jc, e, k + 1, opened \cup {p})

\* updateFromConfig, taking the config only once the process has started.
updateFromConfigLateConfig(w, jc, e) ==
  LET w1 == stop([w EXCEPT !.config = NoConfig])
      user == IF Configs[jc].user = "" THEN curUser ELSE Configs[jc].user
  IN
  IF user # curUser THEN [w1 EXCEPT !.panicked = TRUE]
  ELSE
  LET r == openPorts(w1, jc, e, 1, {})
      w2 == r.w
  IN
  IF ~r.ok THEN w2
  ELSE IF ~Configs[jc].valid THEN w2
  ELSE
  LET w4 == [w2 EXCEPT !.supFds = @ \ r.opened]
      id == NextId(w2)
  IN
  IF e.fault = "stat" THEN w2
  ELSE IF e.fault = "stdoutpipe" THEN w2
  ELSE IF e.fault = "stderrpipe" THEN w2
  ELSE IF e.fault = "start" THEN w4
  ELSE [w4 EXCEPT !.inst[id] = [st |-> "alive", killed |-> FALSE, fds |-> r.opened],
                 !.running = id, !.config = jc]

\* Task.updateFromConfig
updateFromConfig(w, jc, e) ==
  LET w1 == stop([w EXCEPT !.config = NoConfig])
      user == IF Configs[jc].user = "" THEN curUser ELSE Configs[jc].user
  IN
  IF user # curUser THEN [w1 EXCEPT !.panicked = TRUE]
  ELSE
  LET r == openPorts(w1, jc, e, 1, {})
      w2 == r.w
  IN
  IF ~r.ok THEN w2
  ELSE IF ~Configs[jc].valid THEN w2
  ELSE
  LET w3 == [w2 EXCEPT !.config = jc]
      \* cmd.Start() was reached: every extraFile is closed
      w4 == [w3 EXCEPT !.supFds = @ \ r.opened]
      id == NextId(w3)
  IN
  IF e.fault = "stat" THEN w3
  ELSE IF e.fault = "stdoutpipe" THEN w3
  ELSE IF e.fault = "stderrpipe" THEN w3
  ELSE IF e.fault = "start" THEN w4
  ELSE [w4 EXCEPT !.inst[id] = [st |-> "alive", killed |-> FALSE, fds |-> r.opened],
                 !.running = id]

\* update, forgetting to clear the config before reading the file.
updateKeepConfig(w, tf, e) ==
  LET rf == ReadFile(tf)
      w1 == stop(w)
  IN
  IF rf.err THEN w1
  ELSE updateFromConfig(w1, rf.jc, e)

\* Task.update
update(w, tf, e) ==
  LET rf == ReadFile(tf)
      w1 == stop([w EXCEPT !.config = NoConfig])
  IN
  IF rf.err THEN w1
  ELSE updateFromConfig(w1, rf.jc, e)

\* The failure history step, forgetting the copy: the truncation drops the
\* newest entry instead of the oldest.
addFailureNoCopy(fs, i) ==
  LET kept == IF Len(fs) = keepFailures THEN SubSeq(fs, 1, keepFailures - 1) ELSE fs
  IN Append(kept, i)

\* The failure history step, entering the instance twice.
addFailureTwice(fs, i) ==
  LET kept == IF Len(fs) = keepFailures THEN SubSeq(fs, 2, keepFailures) ELSE fs
  IN Append(Append(kept, i), i)

\* The failure history step of onTaskFinished.
addFailure(fs, i) ==
  LET kept == IF Len(fs) = keepFailures THEN SubSeq(fs, 2, keepFailures) ELSE fs
  IN Append(kept, i)

\* onTaskFinished, clearing running whichever instance the report is of.
onTaskFinishedClearsAny(w, m, e) ==
  LET w2 == [w EXCEPT !.running = NoInstance]
      w3 == [w2 EXCEPT !.failures = addFailure(@, m.instance)]
  IN
  IF w3.config # NoConfig
    THEN updateFromConfig(w3, w3.config, e)
    ELSE w3

\* onTaskFinished, restarting only after an abnormal exit.
onTaskFinishedOnlyFailed(w, m, e) ==
  LET w2 == IF m.instance = w.running THEN [w EXCEPT !.running = NoInstance] ELSE w
      w3 == [w2 EXCEPT !.failures = addFailure(@, m.instance)]
  IN
  IF w3.config # NoConfig /\ m.err # "nil"
    THEN updateFromConfig(w3, w3.config, e)
    ELSE w3

\* Task.onTaskFinished
onTaskFinished(w, m, e) ==
  LET w2 == IF m.instance = w.running THEN [w EXCEPT !.running = NoInstance] ELSE w
      w3 == [w2 EXCEPT !.failures = addFailure(@, m.instance)]
  IN
  IF w3.config # NoConfig
    THEN updateFromConfig(w3, w3.config, e)
    ELSE w3

\* The capacity append gives a full slice of capacity c.
growslice(c) == IF c = 0 THEN 1 ELSE 2 * c

\* cap(t.failures) when len(t.failures) is n: the slice grows from nil by
\* one append per exit report; once it holds keepFailures entries every
\* report shifts it in place, truncates it and appends within the capacity.
RECURSIVE capOf(_)
capOf(n) ==
  IF n = 0 THEN 0
  ELSE IF n > capOf(n - 1) THEN growslice(capOf(n - 1)) ELSE capOf(n - 1)

\* The slice value t.failures: its backing array (one per capacity) and its
\* length.
failuresSlice(w) == [arr |-> capOf(Len(w.failures)), len |-> Len(w.failures)]

\* The elements a holder of slice sl sees: those of the backing array while
\* t.failures still uses it, else those of the abandoned array, which are
\* the ones it had at the handout (old).
elements(sl, old) ==
  IF sl.arr = capOf(Len(failures)) THEN SubSeq(failures, 1, sl.len) ELSE old

\* status, not looking at the config.
statusIgnoresConfig(w) ==
  IF w.running # NoInstance THEN "running; for"
  ELSE "not running; valid config"

\* Task.status; the duration after "running; for" is left out.
status(w) ==
  IF w.running # NoInstance THEN "running; for"
  ELSE IF w.config = NoConfig THEN "not running, no valid config"
  ELSE "not running; valid config"

\* ----------------------------------------------------------------- messages
updateMessage(tf) == [type |-> "update", tf |-> tf, instance |-> NoInstance, err |-> "nil"]
stopMessage == [type |-> "stop", tf |-> "", instance |-> NoInstance, err |-> "nil"]
noMessage == [type |-> "none", tf |-> "", instance |-> NoInstance, err |-> "nil"]
waitMessage(i, err) == [type |-> "wait", tf |-> "", instance |-> i, err |-> err]

\* The request messages of the queries, and the values sent back.
requestMessage(kind) == [type |-> kind, tf |-> "", instance |-> NoInstance, err |-> "nil"]
reply(kind, v) == [kind |-> kind, val |-> v]
noReply == reply("none", 0)

\* No run of the restart procedure is going on.
NoSpawn == [pc |-> "none", order |-> <<>>, env |-> <<>>, extraFiles |-> <<>>, child |-> <<>>]

InitTask ==
  /\ config = NoConfig
  /\ running = NoInstance
  /\ failures = <<>>
  /\ inst = [i \in Instances |-> NoInst]
  /\ supFds = {}
  /\ controlc = {}
  /\ panicked = FALSE
  /\ cm = noMessage
  /\ reported = <<>>
  /\ emitted = <<>>
  /\ stopped = {}
  /\ pc = "idle"
  /\ resCh = <<>>
  /\ ret = noReply
  /\ form = 0
  /\ snap = <<>>

\* The loop is between two messages.
InitIdle == spawn = NoSpawn

\* The streams of an instance, each read by its own watchPipe goroutine.
Streams == {"stdout", "stderr"}

\* The watchPipe goroutines when stdout has given n lines and stderr none:
\* read is the number of lines ReadLine has returned, held says that the last
\* of them is not yet added, done that the goroutine has returned.
Tailing(n) ==
  [name \in Streams |->
     [read |-> IF name = "stdout" THEN n ELSE 0, held |-> FALSE, done |-> FALSE]]

\* A fresh TaskOutput.
InitOutput == lines = <<>> /\ appended = <<>> /\ pipes = Tailing(0)

\* new(logBuffer); of buf the model holds the cells written so far, from
\* b.buf[0] on: the others are zero and are not read before they are written.
InitLog ==
  /\ logBuf = [i |-> 0, full |-> FALSE, buf |-> <<>>]
  /\ ntot = 0
  /\ written = <<>>
  /\ writes = 0

\* The names of the tasks of the config directory.
TaskNames == {"a", "b"}

\* The goroutines calling into the registry: watchConfigDir and the
\* handlers of the web server.
Callers == 1..MaxCallers

\* tasks[name] without entry.  A Task of a name is told from the others of
\* that name by the number NewTask made it as.
NoTask == 0

\* The registry at program start; no goroutine is inside it.
InitRegistry ==
  /\ tasks = [n \in TaskNames |-> NoTask]
  /\ tasksMu = 0
  /\ rc = [c \in Callers |-> [pc |-> "idle", op |-> "", name |-> "", t |-> NoTask, ts |-> {}]]
  /\ made = [n \in TaskNames |-> 0]
  /\ given = {}

\* The reply channels a query may make, told apart by the number of the make
\* call.
Channels == 1..MaxQueries

\* No query has been made.
InitReply ==
  /\ chans = [ch \in Channels |-> <<>>]
  /\ sends = [ch \in Channels |-> 0]
  /\ nmade = 0
  /\ qc = [c \in Callers |-> [pc |-> "idle", ch |-> 0]]

Init == InitTask /\ InitIdle /\ InitOutput /\ InitLog /\ InitRegistry /\ InitReply

\* The control loop installs the world w after receiving m.
Install(w, m) ==
  /\ config' = w.config
  /\ running' = w.running
  /\ failures' = w.failures
  /\ inst' = w.inst
  /\ supFds' = w.supFds
  /\ panicked' = w.panicked
  /\ cm' = m
  /\ controlc' = controlc \ {m}

\* The loop can take a message: the process lives and the instance bound
\* leaves room for a start.
LoopReady == ~panicked /\ NextId(World) <= MaxInst

\* The goroutines blocked in Task.Update or Task.Stop.
Senders == Cardinality({m \in controlc : m.type \in {"update", "stop"}})

\* watchConfigDir: an update event for the task; go t.Update(tf)
watchConfigDir(tf) ==
  /\ ~panicked
  /\ Senders < MaxSenders
  /\ controlc' = controlc \cup {updateMessage(tf)}
  /\ UNCHANGED <<config, running, failures, inst, supFds, panicked, cm, reported>>
  /\ UNCHANGED aux

\* Task.Stop
Stop ==
  /\ ~panicked
  /\ Senders < MaxSenders
  /\ controlc' = controlc \cup {stopMessage}
  /\ UNCHANGED <<config, running, failures, inst, supFds, panicked, cm, reported>>
  /\ UNCHANGED aux

\* Task.loop, case updateMessage
LoopUpdate(m, e) ==
  /\ LoopReady
  /\ m \in controlc /\ m.type = "update"
  /\ Install(update(World, m.tf, e), m)
  /\ UNCHANGED reported
  /\ UNCHANGED aux

\* Task.loop, case stopMessage
LoopStop(m) ==
  /\ LoopReady
  /\ m \in controlc /\ m.type = "stop"
  /\ Install(stop(World), m)
  /\ UNCHANGED reported
  /\ UNCHANGED aux

\* Task.loop, case waitMessage
LoopWait(m, e) ==
  /\ LoopReady
  /\ m \in controlc /\ m.type = "wait"
  /\ Install(onTaskFinished(World, m, e), m)
  /\ reported' = Append(reported, m.instance)
  /\ UNCHANGED aux

\* awaitDeath, sending the exit report without waiting for the process.
awaitDeathNoWait(i, err) ==
  /\ ~panicked
  /\ inst[i].st = "alive"
  /\ inst[i].killed => err = "exit"
  /\ controlc' = controlc \cup {waitMessage(i, err)}
  /\ UNCHANGED <<config, running, failures, inst, supFds, panicked, cm, reported>>
  /\ UNCHANGED aux

\* TaskInstance.awaitDeath: the process of instance i terminates (by the
\* SIGKILL it was sent, or by itself with result err), cmd.Wait returns and
\* the goroutine blocks sending the waitMessage.
awaitDeath(i, err) ==
  /\ ~panicked
  /\ inst[i].st = "alive"
  /\ inst[i].killed => err = "exit"
  /\ inst' = [inst EXCEPT ![i].st = "dead", ![i].fds = {}]
  /\ controlc' = controlc \cup {waitMessage(i, err)}
  /\ UNCHANGED <<config, running, failures, supFds, panicked, cm, reported>>
  /\ UNCHANGED aux

\* The finalizer of an os.File the restart procedure dropped closes it.
Finalizer ==
  /\ ~panicked
  /\ supFds # {}
  /\ supFds' = {}
  /\ UNCHANGED <<config, running, failures, inst, controlc, panicked, cm, reported>>
  /\ UNCHANGED aux

Next ==
  \/ \E tf \in TaskFiles : watchConfigDir(tf)
  \/ Stop
  \/ \E m \in controlc : \E e \in EnvsOf(ReadFile(m.tf).jc) : LoopUpdate(m, e)
  \/ \E m \in controlc : LoopStop(m)
  \/ \E m \in controlc : \E e \in EnvsOf(config) : LoopWait(m, e)
  \/ \E i \in Instances : \E err \in ExitErrs : awaitDeath(i, err)
  \/ Finalizer

Spec == Init /\ [][Next]_vars

\* --------------------------------------------------- the failure history alone
\* A synthetic exit report of instance i reaches the control loop of a task
\* without config (so no restart follows): the failure history is driven
\* past its capacity by reports alone.
SyntheticExit(i, err) ==
  /\ config = NoConfig
  /\ controlc = {}
  /\ Len(reported) < MaxReports
  /\ controlc' = {waitMessage(i, err)}
  /\ UNCHANGED <<config, running, failures, inst, supFds, panicked, cm, reported>>
  /\ UNCHANGED aux

NextHistory ==
  \/ \E i \in Instances : \E err \in ExitErrs : SyntheticExit(i, err)
  \/ \E m \in controlc : \E e \in EnvsOf(config) : LoopWait(m, e)

SpecHistory == Init /\ [][NextHistory]_vars

\* ------------------------------------------------------------- the queries
\* Task.Failures up to the send on controlc.
callFailures ==
  /\ pc = "idle" /\ ~panicked
  /\ pc' = "failures"
  /\ controlc' = controlc \cup {requestMessage("failures")}
  /\ UNCHANGED <<config, running, failures, inst, supFds, panicked, cm, reported>>
  /\ UNCHANGED <<emitted, stopped, spawn, resCh, ret, form, snap>>
  /\ UNCHANGED dataVars

\* Task.loop, case failuresRequestMessage: m.resCh <- t.failures
LoopFailures(m) ==
  /\ ~panicked
  /\ m \in controlc /\ m.type = "failures"
  /\ Len(resCh) < 1
  /\ resCh' = Append(resCh, reply("failures", failuresSlice(World)))
  /\ snap' = failures
  /\ cm' = m
  /\ controlc' = controlc \ {m}
  /\ UNCHANGED <<config, running, failures, inst, supFds, panicked, reported>>
  /\ UNCHANGED <<emitted, stopped, spawn, pc, ret, form>>
  /\ UNCHANGED dataVars

\* Task.Failures: return <-ch
recvFailures ==
  /\ pc = "failures" /\ resCh # <<>>
  /\ ret' = Head(resCh)
  /\ resCh' = Tail(resCh)
  /\ pc' = "idle"
  /\ UNCHANGED <<config, running, failures, inst, supFds, controlc, panicked, cm, reported>>
  /\ UNCHANGED <<emitted, stopped, spawn, form, snap>>
  /\ UNCHANGED dataVars

\* Task.Status up to the send on controlc.
callStatus ==
  /\ pc = "idle" /\ ~panicked
  /\ pc' = "status"
  /\ controlc' = controlc \cup {requestMessage("status")}
  /\ UNCHANGED <<config, running, failures, inst, supFds, panicked, cm, reported>>
  /\ UNCHANGED <<emitted, stopped, spawn, resCh, ret, form, snap>>
  /\ UNCHANGED dataVars

\* Task.loop, case statusRequestMessage: m.resCh <- t.status()
LoopStatus(m) ==
  /\ ~panicked
  /\ m \in controlc /\ m.type = "status"
  /\ Len(resCh) < 1
  /\ resCh' = Append(resCh, reply("status", status(World)))
  /\ cm' = m
  /\ controlc' = controlc \ {m}
  /\ UNCHANGED <<config, running, failures, inst, supFds, panicked, reported>>
  /\ UNCHANGED <<emitted, stopped, spawn, pc, ret, form, snap>>
  /\ UNCHANGED dataVars

\* Task.Status: return <-ch
recvStatus ==
  /\ pc = "status" /\ resCh # <<>>
  /\ ret' = Head(resCh)
  /\ resCh' = Tail(resCh)
  /\ pc' = "idle"
  /\ UNCHANGED <<config, running, failures, inst, supFds, controlc, panicked, cm, reported>>
  /\ UNCHANGED <<emitted, stopped, spawn, form, snap>>
  /\ UNCHANGED dataVars

\* The task files of the task that is queried: a valid config without
\* ports, and a file that cannot be read.
QueryFiles == {"plain", "garbage"}

NextQuery ==
  \/ \E tf \in QueryFiles : watchConfigDir(tf)
  \/ Stop
  \/ \E m \in controlc : \E e \in EnvsOf(ReadFile(m.tf).jc) : LoopUpdate(m, e)
  \/ \E m \in controlc : LoopStop(m)
  \/ \E m \in controlc : \E e \in EnvsOf(config) : LoopWait(m, e)
  \/ \E i \in Instances : \E err \in ExitErrs : awaitDeath(i, err)
  \/ callStatus
  \/ \E m \in controlc : LoopStatus(m)
  \/ recvStatus

SpecQuery == Init /\ [][NextQuery]_vars

\* TaskInstance.Pid: the process id of a started instance (never 0); the
\* processes of one task are taken to have different ids.
Pid(i) == i

\* The "pid" form values of a kill request; 0 is what strconv.Atoi gives for
\* a missing or malformed one.
FormPids == 0..MaxInst

\* killTask's checks, the pid check left out.
acceptsAnyPid(in, pid) == in # NoInstance

\* killTask's checks: the request for pid goes on to the kill, in being what
\* RunningInstance returned.
accepts(in, pid) == in # NoInstance /\ ~(Pid(in) # pid \/ pid = 0)

\* killTask up to the send on controlc in t.RunningInstance().
callKill(pid) ==
  /\ pc = "idle" /\ ~panicked
  /\ pc' = "running"
  /\ form' = pid
  /\ controlc' = controlc \cup {requestMessage("running")}
  /\ UNCHANGED <<config, running, failures, inst, supFds, panicked, cm, reported>>
  /\ UNCHANGED <<emitted, stopped, spawn, resCh, ret, snap>>
  /\ UNCHANGED dataVars

\* Task.loop, case runningRequestMessage: m.resCh <- t.running
LoopRunning(m) ==
  /\ ~panicked
  /\ m \in controlc /\ m.type = "running"
  /\ Len(resCh) < 1
  /\ resCh' = Append(resCh, reply("running", running))
  /\ cm' = m
  /\ controlc' = controlc \ {m}
  /\ UNCHANGED <<config, running, failures, inst, supFds, panicked, reported>>
  /\ UNCHANGED <<emitted, stopped, spawn, pc, ret, form, snap>>
  /\ UNCHANGED dataVars

\* killTask: in, ok := t.RunningInstance() returns and the request is
\* checked: it is rejected with an error, or goes on to the kill.
recvRunning ==
  /\ pc = "running" /\ resCh # <<>>
  /\ resCh' = Tail(resCh)
  /\ IF accepts(Head(resCh).val, form)
       THEN pc' = "kill" /\ ret' = Head(resCh)
       ELSE pc' = "idle" /\ ret' = reply("rejected", NoInstance)
  /\ UNCHANGED <<config, running, failures, inst, supFds, controlc, panicked, cm, reported>>
  /\ UNCHANGED <<emitted, stopped, spawn, form, snap>>
  /\ UNCHANGED dataVars

\* killTask: in.cmd.Process.Kill(); a process that has terminated is not
\* signalled.  The caller is left with the instance it signalled and the
\* instance that was running then.
Kill ==
  /\ pc = "kill"
  /\ inst' = IF inst[ret.val].st = "alive" THEN [inst EXCEPT ![ret.val].killed = TRUE]
                                           ELSE inst
  /\ ret' = reply("kill", [in |-> ret.val, running |-> running])
  /\ pc' = "idle"
  /\ UNCHANGED <<config, running, failures, supFds, controlc, panicked, cm, reported>>
  /\ UNCHANGED <<emitted, stopped, spawn, resCh, form, snap>>
  /\ UNCHANGED dataVars

\* The task file of the task that kill requests go to.
KillFiles == {"plain"}

NextKill ==
  \/ \E tf \in KillFiles : watchConfigDir(tf)
  \/ \E m \in controlc : \E e \in EnvsOf(ReadFile(m.tf).jc) : LoopUpdate(m, e)
  \/ \E m \in controlc : \E e \in EnvsOf(config) : LoopWait(m, e)
  \/ \E i \in Instances : \E err \in ExitErrs : awaitDeath(i, err)
  \/ \E pid \in FormPids : callKill(pid)
  \/ \E m \in controlc : LoopRunning(m)
  \/ recvRunning
  \/ Kill

SpecKill == Init /\ [][NextKill]_vars

\* The instances of the exit reports fed to the failure history below.
SnapshotInstances == {i \in Instances : i <= 2}

NextSnapshot ==
  \/ \E i \in SnapshotInstances : SyntheticExit(i, "exit")
  \/ \E m \in controlc : \E e \in EnvsOf(config) : LoopWait(m, e)
  \/ callFailures
  \/ \E m \in controlc : LoopFailures(m)
  \/ recvFailures

SpecSnapshot == Init /\ [][NextSnapshot]_vars

\* ------------------------------------------- the queries' reply channels
\* The queries of a Task.
QueryKinds == {"status", "running", "failures"}

\* make(chan T, 1): the capacity of a reply channel.
resChCap == 1

\* A query that takes the channel of the first query for its replies.
makeShared(n) == 1

\* ch := make(chan T, 1), n channels having been made before: a channel no
\* other goroutine knows.
make(n) == n + 1

\* The request message of a query with its reply channel.
requestOn(kind, ch) ==
  [type |-> kind, tf |-> "", instance |-> NoInstance, err |-> "nil", resCh |-> ch]

\* What the loop sends back: t.status(), t.running, t.failures.
answer(kind) ==
  CASE kind = "status" -> status(World)
    [] kind = "running" -> running
    [] kind = "failures" -> failuresSlice(World)

\* Task.Status, Task.RunningInstance, Task.Failures up to the send on
\* controlc: the channel is made and goes into the request.
call(c, kind) ==
  /\ ~panicked
  /\ qc[c].pc = "idle"
  /\ nmade < MaxQueries
  /\ nmade' = nmade + 1
  /\ qc' = [qc EXCEPT ![c] = [pc |-> "wait", ch |-> make(nmade)]]
  /\ controlc' = controlc \cup {requestOn(kind, make(nmade))}
  /\ UNCHANGED <<config, running, failures, inst, supFds, panicked, cm, reported>>
  /\ UNCHANGED <<emitted, stopped, spawn, callerVars, outputVars, logVars, registryVars, chans, sends>>

\* Task.loop, the cases of the request messages: m.resCh <- the answer.  The
\* send returns when the channel's buffer has room.
LoopReply(m) ==
  /\ ~panicked
  /\ m \in controlc /\ m.type \in QueryKinds
  /\ Len(chans[m.resCh]) < resChCap
  /\ chans' = [chans EXCEPT ![m.resCh] = Append(@, reply(m.type, answer(m.type)))]
  /\ sends' = [sends EXCEPT ![m.resCh] = @ + 1]
  /\ cm' = m
  /\ controlc' = controlc \ {m}
  /\ UNCHANGED <<config, running, failures, inst, supFds, panicked, reported>>
  /\ UNCHANGED <<emitted, stopped, spawn, callerVars, outputVars, logVars, registryVars, nmade, qc>>

\* Task.Status, Task.RunningInstance, Task.Failures: <-ch, and the return.
recv(c) ==
  /\ qc[c].pc = "wait"
  /\ chans[qc[c].ch] # <<>>
  /\ chans' = [chans EXCEPT ![qc[c].ch] = Tail(@)]
  /\ qc' = [qc EXCEPT ![c] = [pc |-> "idle", ch |-> 0]]
  /\ UNCHANGED taskVars
  /\ UNCHANGED <<emitted, stopped, spawn, callerVars, outputVars, logVars, registryVars, sends, nmade>>

\* The task file of the task that is queried.
ReplyFiles == {"plain"}

\* The queries between the Updates of a task whose instances do not terminate
\* by themselves.
NextReply ==
  \/ \E tf \in ReplyFiles : watchConfigDir(tf)
  \/ \E m \in controlc : \E e \in EnvsOf(ReadFile(m.tf).jc) : LoopUpdate(m, e)
  \/ \E c \in Callers : \E kind \in QueryKinds : call(c, kind)
  \/ \E m \in controlc : LoopReply(m)
  \/ \E c \in Callers : recv(c)

SpecReply == Init /\ [][NextReply]_vars

\* ------------------------------------------------------- the output buffer
\* TaskOutput.Add with the newest line dropped on overflow.
AddDropNewest(ls, l) ==
  IF Len(ls) + 1 > maxKeepLines THEN ls ELSE Append(ls, l)

\* TaskOutput.Add, on the list: PushBack, then Remove(Front) when too long.
Add(ls, l) ==
  LET pushed == Append(ls, l)
  IN IF Len(pushed) > maxKeepLines THEN Tail(pushed) ELSE pushed

\* The Line of stream name read as the n-th line of the instance.
Line(name, n) == [Name |-> name, Data |-> n]

\* watchPipe: a line of the stream is read and added; Add runs under
\* TaskOutput.mu, so the adds of the two goroutines follow one another.
watchPipe(name) ==
  /\ Len(appended) < maxKeepLines + MaxAdds
  /\ lines' = Add(lines, Line(name, Len(appended) + 1))
  /\ appended' = Append(appended, Line(name, Len(appended) + 1))
  /\ UNCHANGED pipes
  /\ UNCHANGED <<taskVars, emitted, stopped, spawn, callerVars, logVars, registryVars, replyVars>>

\* TaskInstance.Printf: a "system" line about the instance is added.
systemLine ==
  /\ Len(appended) < maxKeepLines + MaxAdds
  /\ lines' = Add(lines, Line("system", Len(appended) + 1))
  /\ appended' = Append(appended, Line("system", Len(appended) + 1))
  /\ UNCHANGED pipes
  /\ UNCHANGED <<taskVars, emitted, stopped, spawn, callerVars, logVars, registryVars, replyVars>>

\* The output buffer after the first n lines of an instance that wrote to
\* stdout only.
Filled(n) == [k \in 1..n |-> Line("stdout", k)]

\* An output buffer two lines or one line below its capacity, or full.
InitFilled ==
  /\ lines \in {Filled(n) : n \in (maxKeepLines - 2)..maxKeepLines}
  /\ appended = lines
  /\ pipes = Tailing(Len(lines))

NextOutput ==
  \/ \E name \in Streams : watchPipe(name)
  \/ systemLine

\* The program with an instance whose output buffer is that far filled.
InitNearFull == InitTask /\ InitIdle /\ InitFilled /\ InitLog /\ InitRegistry /\ InitReply

SpecOutput == InitNearFull /\ [][NextOutput]_vars

\* ------------------------------------------------- the output, line by line
\* The lines that were read and are not yet added.
InHand == {name \in Streams : pipes[name].held}

\* watchPipe: br.ReadLine() returns the next line of the stream.
readLine(name) ==
  /\ ~pipes[name].done /\ ~pipes[name].held
  /\ Len(appended) + Cardinality(InHand) < maxKeepLines + MaxAdds
  /\ pipes' = [pipes EXCEPT ![name].read = @ + 1, ![name].held = TRUE]
  /\ UNCHANGED <<lines, appended>>
  /\ UNCHANGED <<taskVars, emitted, stopped, spawn, callerVars, logVars, registryVars, replyVars>>

\* watchPipe, adding the line it read and reading on with the line still in
\* its hand.
addLineAgain(name) ==
  /\ pipes[name].held
  /\ Len(appended) < maxKeepLines + MaxAdds
  /\ lines' = Add(lines, Line(name, pipes[name].read))
  /\ appended' = Append(appended, Line(name, pipes[name].read))
  /\ UNCHANGED pipes
  /\ UNCHANGED <<taskVars, emitted, stopped, spawn, callerVars, logVars, registryVars, replyVars>>

\* watchPipe: in.output.Add(&Line{...}) of the line it read; the Line's Data
\* is written as the number of the line in its stream.
addLine(name) ==
  /\ pipes[name].held
  /\ lines' = Add(lines, Line(name, pipes[name].read))
  /\ appended' = Append(appended, Line(name, pipes[name].read))
  /\ pipes' = [pipes EXCEPT ![name].held = FALSE]
  /\ UNCHANGED <<taskVars, emitted, stopped, spawn, callerVars, logVars, registryVars, replyVars>>

\* watchPipe: ReadLine returns io.EOF and the goroutine returns.
pipeEOF(name) ==
  /\ ~pipes[name].done /\ ~pipes[name].held
  /\ pipes' = [pipes EXCEPT ![name].done = TRUE]
  /\ UNCHANGED <<lines, appended>>
  /\ UNCHANGED <<taskVars, emitted, stopped, spawn, callerVars, logVars, registryVars, replyVars>>

\* watchPipe: ReadLine returns another error (the pipe was closed under the
\* reader by cmd.Wait); the goroutine adds a system line about it and returns.
pipeClosed(name) ==
  /\ ~pipes[name].done /\ ~pipes[name].held
  /\ Len(appended) + Cardinality(InHand) < maxKeepLines + MaxAdds
  /\ lines' = Add(lines, Line("system", Len(appended) + 1))
  /\ appended' = Append(appended, Line("system", Len(appended) + 1))
  /\ pipes' = [pipes EXCEPT ![name].done = TRUE]
  /\ UNCHANGED <<taskVars, emitted, stopped, spawn, callerVars, logVars, registryVars, replyVars>>

\* TaskInstance.Printf from the control loop, beside the two readers.
loopLine ==
  /\ Len(appended) + Cardinality(InHand) < maxKeepLines + MaxAdds
  /\ systemLine

NextTail ==
  \/ \E name \in Streams : readLine(name)
  \/ \E name \in Streams : addLine(name)
  \/ \E name \in Streams : pipeEOF(name)
  \/ \E name \in Streams : pipeClosed(name)
  \/ loopLine

SpecTail == InitNearFull /\ [][NextTail]_vars

\* -------------------------------------------------------- the task registry
\* The functions of the registry.
RegistryOps == {"GetTask", "GetOrMakeTask", "GetTasks"}

\* A mutex that lets everyone in.
lockAlways(mu) == TRUE

\* tasksMu.Lock() can return: nobody holds the mutex.
lockFree(mu) == mu = 0

\* GetTask, GetOrMakeTask, GetTasks: tasksMu.Lock()
regLock(c, op, name) ==
  /\ rc[c].pc = "idle"
  /\ lockFree(tasksMu)
  /\ tasksMu' = c
  /\ rc' = [rc EXCEPT ![c] = [pc |-> "locked", op |-> op, name |-> name, t |-> NoTask, ts |-> {}]]
  /\ UNCHANGED <<tasks, made, given>>
  /\ UNCHANGED <<taskVars, emitted, stopped, spawn, callerVars, outputVars, logVars, replyVars>>

\* t, ok := tasks[name]; for GetTasks the range over the map.
regLookup(c) ==
  /\ rc[c].pc = "locked"
  /\ rc' = [rc EXCEPT ![c].t = IF rc[c].op = "GetTasks" THEN NoTask ELSE tasks[rc[c].name],
                       ![c].ts = IF rc[c].op = "GetTasks"
                                   THEN {<<n, tasks[n]>> : n \in {x \in TaskNames : tasks[x] # NoTask}}
                                   ELSE {},
                       ![c].pc = IF rc[c].op = "GetOrMakeTask" /\ tasks[rc[c].name] = NoTask
                                   THEN "make" ELSE "unlock"]
  /\ UNCHANGED <<tasks, tasksMu, made, given>>
  /\ UNCHANGED <<taskVars, emitted, stopped, spawn, callerVars, outputVars, logVars, replyVars>>

\* GetOrMakeTask: t = NewTask(name) (which starts the Task's loop);
\* tasks[name] = t
regMake(c) ==
  /\ rc[c].pc = "make"
  /\ made' = [made EXCEPT ![rc[c].name] = @ + 1]
  /\ tasks' = [tasks EXCEPT ![rc[c].name] = made[rc[c].name] + 1]
  /\ rc' = [rc EXCEPT ![c].t = made[rc[c].name] + 1, ![c].pc = "unlock"]
  /\ UNCHANGED <<tasksMu, given>>
  /\ UNCHANGED <<taskVars, emitted, stopped, spawn, callerVars, outputVars, logVars, replyVars>>

\* The deferred tasksMu.Unlock() and the return.
regUnlock(c) ==
  /\ rc[c].pc = "unlock"
  /\ tasksMu' = 0
  /\ given' = given \cup rc[c].ts
                     \cup (IF rc[c].t # NoTask THEN {<<rc[c].name, rc[c].t>>} ELSE {})
  /\ rc' = [rc EXCEPT ![c].pc = "idle"]
  /\ UNCHANGED <<tasks, made>>
  /\ UNCHANGED <<taskVars, emitted, stopped, spawn, callerVars, outputVars, logVars, replyVars>>

NextRegistry ==
  \/ \E c \in Callers : \E op \in RegistryOps : \E name \in TaskNames : regLock(c, op, name)
  \/ \E c \in Callers : regLookup(c)
  \/ \E c \in Callers : regMake(c)
  \/ \E c \in Callers : regUnlock(c)

SpecRegistry == Init /\ [][NextRegistry]_vars

\* ---------------------------------------------------------- the system log
\* Byte strings are held run-length encoded: <<[b |-> "a", n |-> 3]>> is
\* "aaa".  No run is empty and neighbouring runs differ in their byte, so a
\* string has one encoding.
run(b, n) == [b |-> b, n |-> n]

\* len(s)
RECURSIVE len(_)
len(s) == IF s = <<>> THEN 0 ELSE s[1].n + len(Tail(s))

\* s + t
cat(s, t) ==
  IF s = <<>> THEN t
  ELSE IF t = <<>> THEN s
  ELSE IF s[Len(s)].b = t[1].b
    THEN SubSeq(s, 1, Len(s) - 1) \o <<run(t[1].b, s[Len(s)].n + t[1].n)>> \o Tail(t)
  ELSE s \o t

\* s[:k]
RECURSIVE take(_, _)
take(s, k) ==
  IF k <= 0 \/ s = <<>> THEN <<>>
  ELSE IF s[1].n <= k THEN <<s[1]>> \o take(Tail(s), k - s[1].n)
  ELSE <<run(s[1].b, k)>>

\* s[k:]
RECURSIVE drop(_, _)
drop(s, k) ==
  IF s = <<>> THEN <<>>
  ELSE IF k <= 0 THEN s
  ELSE IF s[1].n <= k THEN drop(Tail(s), k - s[1].n)
  ELSE <<run(s[1].b, s[1].n - k)>> \o Tail(s)

\* strings.Index(s, c) for a single byte c: the offset of the first c, or -1.
RECURSIVE Index(_, _)
Index(s, c) ==
  IF s = <<>> THEN -1
  ELSE IF s[1].b = c THEN 0
  ELSE LET r == Index(Tail(s), c) IN IF r = -1 THEN -1 ELSE s[1].n + r

\* copy(b.buf[i:], p) of n bytes, on the cells written so far.
copy(buf, i, p, n) == cat(cat(take(buf, i), take(p, n)), drop(buf, i + n))

\* logBuffer.Write: the loop, with ntot so far.
RECURSIVE Write(_, _, _)
Write(b, p, tot) ==
  IF len(p) = 0 THEN [b |-> b, ntot |-> tot]
  ELSE
  LET room == systemLogSize - b.i
      n == IF len(p) < room THEN len(p) ELSE room
      buf2 == copy(b.buf, b.i, p, n)
      b2 == IF b.i + n = systemLogSize
              THEN [i |-> 0, full |-> TRUE, buf |-> buf2]
              ELSE [i |-> b.i + n, full |-> b.full, buf |-> buf2]
  IN Write(b2, drop(p, n), tot + n)

\* "...\n"
marker == <<run(".", 3), run("\n", 1)>>

\* String, not rotating the ring.
StringUnrotated(b) ==
  IF ~b.full THEN take(b.buf, b.i)
  ELSE
  LET s == b.buf
      nl == Index(s, "\n")
  IN cat(marker, IF nl # -1 THEN drop(s, nl + 1) ELSE s)

\* logBuffer.String
String(b) ==
  IF ~b.full THEN take(b.buf, b.i)
  ELSE
  LET s == cat(drop(b.buf, b.i), take(b.buf, b.i))
      nl == Index(s, "\n")
  IN cat(marker, IF nl # -1 THEN drop(s, nl + 1) ELSE s)

\* What is written to the log: short lines and pieces of lines, and long
\* pieces around the size of the ring, with and without a line end.
Payloads ==
  { <<run("a", 1)>>,
    <<run("a", 1), run("\n", 1)>>,
    <<run("a", systemLogSize - 2)>>,
    <<run("b", 2), run("\n", 1), run("a", systemLogSize - 5)>>,
    <<run("b", systemLogSize + 3)>> }

\* logger.Print: a write of p to the system log; Write runs under b.mu.
logWrite(p) ==
  /\ writes < MaxWrites
  /\ LET r == Write(logBuf, p, 0) IN logBuf' = r.b /\ ntot' = r.ntot
  /\ written' = cat(written, p)
  /\ writes' = writes + 1
  /\ UNCHANGED <<taskVars, emitted, stopped, spawn, callerVars, outputVars, registryVars, replyVars>>

NextLog == \E p \in Payloads : logWrite(p)

SpecLog == Init /\ [][NextLog]_vars

\* ------------------------------------------------ the order of the updates
\* The task files of the update events of one task: its config file, and the
\* same file when it cannot be read (deleted or unparsable).
OrderFiles == {"plain", "garbage"}

\* watchConfigDir with the history of the events: the event for tf is taken
\* from dirWatcher.Updates() and `go t.Update(tf)` starts the goroutine that
\* will send the updateMessage.  Each file is emitted once.
emitUpdate(tf) ==
  /\ ~panicked
  /\ \A k \in 1..Len(emitted) : emitted[k] # tf
  /\ emitted' = Append(emitted, tf)
  /\ controlc' = controlc \cup {updateMessage(tf)}
  /\ UNCHANGED <<config, running, failures, inst, supFds, panicked, cm, reported>>
  /\ UNCHANGED <<stopped, spawn, callerVars>>
  /\ UNCHANGED dataVars

NextOrder ==
  \/ \E tf \in OrderFiles : emitUpdate(tf)
  \/ \E m \in controlc : \E e \in EnvsOf(ReadFile(m.tf).jc) : LoopUpdate(m, e)
  \/ \E m \in controlc : \E e \in EnvsOf(config) : LoopWait(m, e)
  \/ \E i \in Instances : \E err \in ExitErrs : awaitDeath(i, err)

SpecOrder == Init /\ [][NextOrder]_vars

\* ---------------------------------------------------- the restart after Stop
\* Task.loop, case stopMessage, with the history of the instances it killed.
LoopStopNoted(m) ==
  /\ LoopReady
  /\ m \in controlc /\ m.type = "stop"
  /\ Install(stop(World), m)
  /\ stopped' = IF running = NoInstance THEN stopped ELSE stopped \cup {running}
  /\ UNCHANGED reported
  /\ UNCHANGED <<emitted, spawn, callerVars, dataVars>>

\* The task files of the task that is stopped.
StopFiles == {"plain", "garbage"}

NextStop ==
  \/ \E tf \in StopFiles : watchConfigDir(tf)
  \/ Stop
  \/ \E m \in controlc : \E e \in EnvsOf(ReadFile(m.tf).jc) : LoopUpdate(m, e)
  \/ \E m \in controlc : LoopStopNoted(m)
  \/ \E m \in controlc : \E e \in EnvsOf(config) : LoopWait(m, e)
  \/ \E i \in Instances : \E err \in ExitErrs : awaitDeath(i, err)

SpecStop == Init /\ [][NextStop]_vars

\* ------------------------------------------- the descriptors of the ports
\* The named ports of a config, told apart by number: port p stands for the
\* name whose variable is RUNSIT_PORTFD_<name>.
PortPool == 1..MaxPorts

\* The orders in which `range ports` may visit the ports of a config.
PortOrders == UNION {Perms(S) : S \in SUBSET PortPool}

\* The descriptor number, counting the entries after the append.
portFdAfterAppend(files) == 3 + Len(files) + 1

\* 3+len(extraFiles)
portFd(files) == 3 + Len(files)

\* The restart procedure has come to its ports loop, for a config with any
\* ports in any order; env holds USER=<user>, written as variable 0.
InitSpawn ==
  spawn \in {[pc |-> "ports", order |-> o, env |-> <<[name |-> 0, val |-> 0]>>,
              extraFiles |-> <<>>, child |-> <<>>] : o \in PortOrders}

\* One round of the ports loop without error: the port is opened, its
\* variable is appended to env and its file to extraFiles.
openPort ==
  /\ spawn.pc = "ports"
  /\ Len(spawn.extraFiles) < Len(spawn.order)
  /\ LET p == spawn.order[Len(spawn.extraFiles) + 1] IN
       spawn' = [spawn EXCEPT
                   !.env = Append(@, [name |-> p, val |-> portFd(spawn.extraFiles)]),
                   !.extraFiles = Append(@, p)]
  /\ UNCHANGED <<taskVars, emitted, stopped, callerVars, dataVars>>

\* An error of the procedure before the process is started (a port's value,
\* listen, File; Validate, Stat, the pipes, cmd.Start): it returns.
spawnError ==
  /\ spawn.pc = "ports"
  /\ spawn' = [spawn EXCEPT !.pc = "aborted"]
  /\ UNCHANGED <<taskVars, emitted, stopped, callerVars, dataVars>>

\* cmd.Env = env; cmd.ExtraFiles = extraFiles; cmd.Start(): entry i of
\* ExtraFiles is descriptor 3+i of the child.
startChild ==
  /\ spawn.pc = "ports"
  /\ Len(spawn.extraFiles) = Len(spawn.order)
  /\ spawn' = [spawn EXCEPT
                 !.pc = "started",
                 !.child = [fd \in 3..(2 + Len(spawn.extraFiles)) |-> spawn.extraFiles[fd - 2]]]
  /\ UNCHANGED <<taskVars, emitted, stopped, callerVars, dataVars>>

NextPorts ==
  \/ openPort
  \/ spawnError
  \/ startChild

\* The program in a run of the restart procedure.
InitPorts == InitTask /\ InitSpawn /\ InitOutput /\ InitLog /\ InitRegistry /\ InitReply

SpecPorts == InitPorts /\ [][NextPorts]_vars

\* ------------------------------------------------- the loop under fairness
\* The config a message makes the restart procedure run on.
configOf(m) ==
  IF m.type = "update" THEN ReadFile(m.tf).jc
  ELSE IF m.type = "wait" THEN config
  ELSE NoConfig

\* Task.loop's switch on an Update, a Stop or an exit report.
handle(w, m, e) ==
  IF m.type = "update" THEN update(w, m.tf, e)
  ELSE IF m.type = "stop" THEN stop(w)
  ELSE onTaskFinished(w, m, e)

\* Task.loop once MaxInst processes were started: the operating system
\* starts no further one, cmd.Start fails.
LoopNoFork(m, e) ==
  /\ ~panicked
  /\ NextId(World) > MaxInst
  /\ m \in controlc /\ m.type \in {"update", "stop", "wait"}
  /\ configOf(m) # NoConfig => e.fault = "start"
  /\ Install(handle(World, m, e), m)
  /\ reported' = IF m.type = "wait" THEN Append(reported, m.instance) ELSE reported
  /\ UNCHANGED aux

\* The task files of the task: a valid config, a file that cannot be read
\* and a config for another user.
LiveFiles == {"plain", "garbage", "otheruser"}

\* The messages that can wait on controlc.
Messages ==
  {updateMessage(tf) : tf \in LiveFiles}
    \cup {stopMessage, requestMessage("status")}
    \cup {waitMessage(i, err) : i \in Instances, err \in ExitErrs}

\* `for cm := range t.controlc` receives m.
Receive(m) ==
  \/ \E e \in EnvsOf(ReadFile(m.tf).jc) : LoopUpdate(m, e)
  \/ LoopStop(m)
  \/ \E e \in EnvsOf(config) : LoopWait(m, e)
  \/ \E e \in EnvsOf(configOf(m)) : LoopNoFork(m, e)
  \/ LoopStatus(m)

NextLive ==
  \/ \E tf \in LiveFiles : watchConfigDir(tf)
  \/ Stop
  \/ \E m \in controlc : \E e \in EnvsOf(ReadFile(m.tf).jc) : LoopUpdate(m, e)
  \/ \E m \in controlc : LoopStop(m)
  \/ \E m \in controlc : \E e \in EnvsOf(config) : LoopWait(m, e)
  \/ \E m \in controlc : \E e \in EnvsOf(configOf(m)) : LoopNoFork(m, e)
  \/ \E i \in Instances : \E err \in ExitErrs : awaitDeath(i, err)
  \/ callStatus
  \/ \E m \in controlc : LoopStatus(m)
  \/ recvStatus

\* The scheduling: the loop's goroutine runs, and the senders blocked on
\* controlc are received in the order they came (the channel's queue of
\* senders), so none waits for ever; the caller's goroutine runs.  Nothing
\* makes a process terminate or an event come.
FairLive ==
  /\ \A m \in Messages : WF_vars(Receive(m))
  /\ WF_vars(recvStatus)

SpecLive == Init /\ [][NextLive]_vars /\ FairLive

\* ================================================================== claims

\* The conditions under which a run of the restart procedure on config jc in
\* world w starts a process: the operating system lets every step succeed
\* and no port of the config is bound by another descriptor.
SpawnSucceeds(w, jc, e) ==
  /\ e.fault = "none"
  /\ \A p \in Configs[jc].ports : ~Held(w, p)

\* The instances whose process lives and was not sent SIGKILL.
LiveInstances == {i \in Instances : inst[i].st = "alive" /\ ~inst[i].killed}

\* C1: at most one instance of the task is running at any time: at most one
\* instance has a live process that was not sent SIGKILL, and whenever a step
\* installs a new running instance while an earlier one is recorded as
\* running, the earlier one has been stopped (sent SIGKILL) by that step or
\* its process has terminated.
C1_AtMostOneRunning ==
  /\ [](Cardinality(LiveInstances) <= 1)
  /\ [][(running' # NoInstance /\ running' # running)
          => /\ inst[running'].st = "none"
             /\ running # NoInstance =>
                  inst'[running].killed \/ inst'[running].st # "alive"]_vars

\* C1 witness: a restart replaced an instance whose process has not yet
\* terminated: the new one is running, the old one was sent SIGKILL.
C1_Witness ==
  /\ running # NoInstance
  /\ \E j \in Instances : j # running /\ inst[j].st = "alive" /\ inst[j].killed

\* The number of entries of instance i in a failure history.
Count(fs, i) == Cardinality({k \in 1..Len(fs) : fs[k] = i})

\* C2: when the exit report of the running instance is processed while the
\* task holds a config and the spawn succeeds, exactly one entry for that
\* instance is added to the failure history (as its newest entry) and a new
\* instance is running after the same step, no Update being involved.
C2_ExitRestarts ==
  [][\A m \in controlc : \A e \in EnvsOf(config) :
       (/\ m.type = "wait" /\ cm' = m /\ m \notin controlc'
        /\ m.instance = running
        /\ config # NoConfig
        /\ SpawnSucceeds(World, config, e)
        /\ LoopWait(m, e))
       => /\ Count(failures', m.instance) = Count(failures, m.instance) + 1
          /\ Len(failures') = IF Len(failures) = keepFailures THEN keepFailures
                                                              ELSE Len(failures) + 1
          /\ failures'[Len(failures')] = m.instance
          /\ running' \notin {NoInstance, running}
          /\ inst[running'].st = "none" /\ inst'[running'].st = "alive"
          /\ cm'.type = "wait"]_vars

\* C2 witness: the loop's last message was the exit report of an instance
\* that was never stopped (so it was the running one), and an instance is
\* running again.
C2_Witness ==
  /\ cm.type = "wait"
  /\ failures # <<>> /\ failures[Len(failures)] = cm.instance
  /\ ~inst[cm.instance].killed
  /\ running # NoInstance

\* C3 (as claimed): processing the exit report of a superseded instance (one
\* the supervisor stopped, no longer the running one) neither kills nor
\* replaces the instance that is running.
C3_SupersededExitKeepsRunning ==
  [][\A m \in controlc : \A e \in EnvsOf(config) :
       (/\ m.type = "wait" /\ cm' = m /\ m \notin controlc'
        /\ running # NoInstance
        /\ m.instance # running
        /\ inst[m.instance].killed
        /\ LoopWait(m, e))
       => /\ running' = running
          /\ inst'[running] = inst[running]]_vars

\* The task file does not parse, or its config does not validate.
BadFile(tf) == ReadFile(tf).err \/ ~Configs[ReadFile(tf).jc].valid

\* The instances started so far.
Created == {i \in Instances : inst[i].st # "none"}

\* C4: an Update whose file does not parse or whose config does not validate
\* leaves the task without running instance and without config (status "not
\* running, no valid config"), has the previously running instance killed
\* and starts no instance; a task in that state stays in it under every step
\* that is not the processing of an Update.
C4_BadConfigStops ==
  /\ [][\A m \in controlc : \A e \in EnvsOf(ReadFile(m.tf).jc) :
          (/\ m.type = "update" /\ cm' = m /\ m \notin controlc'
           /\ BadFile(m.tf)
           /\ LoopUpdate(m, e))
          => /\ running' = NoInstance
             /\ config' = NoConfig
             /\ status([config |-> config', running |-> running'])
                  = "not running, no valid config"
             /\ running # NoInstance => inst'[running].killed
             /\ Created' = Created]_vars
  /\ [][(/\ running = NoInstance
         /\ config = NoConfig
         /\ ~(cm' # cm /\ cm'.type = "update")
         /\ ~(\E m \in controlc : m.type = "update" /\ m \notin controlc'))
        => running' = NoInstance /\ config' = NoConfig]_vars

\* C4 witness: the loop's last message was an Update with a bad file, sent
\* while an instance was running: the task is down without config and the
\* stopped instance's exit report is still to come.
C4_Witness ==
  /\ cm.type = "update" /\ BadFile(cm.tf)
  /\ running = NoInstance /\ config = NoConfig
  /\ \E i \in Instances : inst[i].st = "alive" /\ inst[i].killed

\* The config of the task file names a user other than the current one.
OtherUser(tf) == ~ReadFile(tf).err /\ Configs[ReadFile(tf).jc].user \notin {"", curUser}

\* C5 (as claimed): an Update whose config names another user than the
\* current one aborts the spawn and the supervisor goes on: no panic, nothing
\* running, no instance started.
C5_UserMismatchAbsorbed ==
  [][\A m \in controlc : \A e \in EnvsOf(ReadFile(m.tf).jc) :
       (/\ m.type = "update" /\ cm' = m /\ m \notin controlc'
        /\ OtherUser(m.tf)
        /\ LoopUpdate(m, e))
       => /\ ~panicked'
          /\ running' = NoInstance
          /\ Created' = Created]_vars

\* C6 (as claimed): between the steps of the control loop the supervisor
\* holds no open port descriptor.
C6_NoPortDescriptorLeak == supFds = {}

\* A restart on config jc with a named port that an earlier instance of the
\* task still holds, nothing else standing in its way.
PortRestartOK(jc, e) ==
  /\ jc # NoConfig
  /\ Configs[jc].valid /\ Configs[jc].ports # {} /\ Configs[jc].badPort = ""
  /\ Configs[jc].user \in {"", curUser}
  /\ e.fault = "none"
  /\ supFds = {}
  /\ \E i \in Instances : inst[i].fds \cap Configs[jc].ports # {}

\* C7 (as claimed): when the restart procedure runs on a config with a named
\* port, the operating system failing nothing and the supervisor holding no
\* leaked descriptor (so that only the task's own earlier instances, all sent
\* SIGKILL by then, can still hold the port), a new instance is running
\* afterwards and the config is kept.
C7_KeepsPortAcrossRestart ==
  [][\A m \in controlc :
       /\ \A e \in EnvsOf(ReadFile(m.tf).jc) :
            (m.type = "update" /\ cm' = m /\ m \notin controlc' /\ PortRestartOK(ReadFile(m.tf).jc, e) /\ LoopUpdate(m, e))
            => running' # NoInstance /\ config' = ReadFile(m.tf).jc
       /\ \A e \in EnvsOf(config) :
            (m.type = "wait" /\ cm' = m /\ m \notin controlc' /\ PortRestartOK(config, e) /\ LoopWait(m, e))
            => running' # NoInstance /\ config' = config]_vars

\* The last n elements of a sequence (all of it when shorter).
LastN(s, n) == IF Len(s) <= n THEN s ELSE SubSeq(s, Len(s) - n + 1, Len(s))

\* C8: the failure history never holds more than keepFailures instances and
\* equals the last min(N, keepFailures) of the N instances reported so far,
\* in arrival order.
C8_FailureHistory ==
  /\ Len(failures) <= keepFailures
  /\ failures = LastN(reported, keepFailures)

\* C8 witness: more reports than the history holds were processed, so at
\* least two entries were evicted.
C8_Witness == Len(reported) >= keepFailures + 2 /\ Len(failures) = keepFailures

\* C9 (as claimed): the instance of an exit report with result nil is not
\* put into the failure history.
C9_OnlyAbnormalExits ==
  (cm.type = "wait" /\ cm.err = "nil") => Count(failures, cm.instance) = 0

\* C10: Stop on a task without running instance changes nothing (config,
\* failures, running, the processes, the descriptors), and stopping twice is
\* stopping once.
C10_StopIdempotent ==
  /\ [](running = NoInstance => stop(World) = World)
  /\ [](stop(stop(World)) = stop(World))
  /\ [][\A m \in controlc :
          (m.type = "stop" /\ cm' = m /\ m \notin controlc' /\ running = NoInstance /\ LoopStop(m))
          => UNCHANGED <<config, failures, running, inst, supFds, panicked>>]_vars

\* C10 witness: the loop's last message was a Stop, no instance was ever sent
\* SIGKILL (so nothing ran when it came), and the task holds a config and a
\* failure history that the Stop left alone.
C10_Witness ==
  /\ cm.type = "stop"
  /\ \A i \in Instances : ~inst[i].killed
  /\ running = NoInstance
  /\ config # NoConfig /\ failures # <<>>

\* C11: Stop on a task with a running instance sends that instance SIGKILL
\* and clears running in the same step of the loop, leaving failures and
\* config as they were; an instance gets an entry in the failure history only
\* by the step that processes its exit report.
C11_StopRunning ==
  /\ [][\A m \in controlc :
          (m.type = "stop" /\ cm' = m /\ m \notin controlc' /\ running # NoInstance /\ LoopStop(m))
          => /\ inst'[running].killed
             /\ running' = NoInstance
             /\ failures' = failures
             /\ config' = config]_vars
  /\ [][\A i \in Instances :
          Count(failures', i) > Count(failures, i)
          => \E m \in controlc :
               m.type = "wait" /\ m.instance = i /\ cm' = m /\ m \notin controlc']_vars

\* C11 witness: the loop's last message was a Stop, the task keeps its config
\* and runs nothing, and an instance that was sent SIGKILL still lives and
\* has no entry in the failure history: its exit report is still to come.
C11_Witness ==
  /\ cm.type = "stop"
  /\ running = NoInstance /\ config # NoConfig
  /\ \E i \in Instances :
       inst[i].st = "alive" /\ inst[i].killed /\ Count(failures, i) = 0

\* The update event emitted k-th has been received by the control loop.
Applied(k) == updateMessage(emitted[k]) \notin controlc

\* C12 (as claimed): the updates emitted for one task are applied in emission
\* order: none is received by the loop while one emitted before it is still
\* waiting, and once all are received the last one received is the last one
\* emitted.
C12_UpdatesInEmissionOrder ==
  /\ \A j, k \in 1..Len(emitted) : (j < k /\ Applied(k)) => Applied(j)
  /\ (emitted # <<>> /\ cm.type = "update" /\ \A k \in 1..Len(emitted) : Applied(k))
       => cm.tf = emitted[Len(emitted)]

\* The reply the loop sent last: still in the channel, or with the caller.
handedOut == IF resCh # <<>> THEN Head(resCh) ELSE ret

\* C13 (as claimed): the failure list Failures() returns keeps the elements
\* it had when the loop handed it out, whatever messages the loop processes
\* afterwards.
C13_FailuresSnapshotStable ==
  handedOut.kind = "failures" => elements(handedOut.val, snap) = snap

\* C14: the loop answers a status request with "running; for <duration>"
\* exactly when an instance is running, "not running; valid config" exactly
\* when none is running and a config is held, "not running, no valid config"
\* exactly when neither is there; the caller gets that answer, and the query
\* changes nothing of the task.
C14_StatusByState ==
  /\ [][\A m \in controlc :
          (m.type = "status" /\ cm' = m /\ m \notin controlc' /\ LoopStatus(m))
          => /\ Len(resCh') = 1 /\ resCh'[1].kind = "status"
             /\ resCh'[1].val = "running; for" <=> running # NoInstance
             /\ resCh'[1].val = "not running; valid config"
                  <=> (running = NoInstance /\ config # NoConfig)
             /\ resCh'[1].val = "not running, no valid config"
                  <=> (running = NoInstance /\ config = NoConfig)
             /\ UNCHANGED <<config, running, failures, inst, supFds, panicked>>]_vars
  /\ [][(pc = "status" /\ pc' = "idle") => (resCh # <<>> /\ ret' = resCh[1])]_vars

\* C14 witness: Status() returned "not running; valid config" for a task
\* that holds a config and runs nothing.
C14_Witness ==
  /\ pc = "idle" /\ cm.type = "status"
  /\ ret.kind = "status" /\ ret.val = "not running; valid config"
  /\ running = NoInstance /\ config # NoConfig

\* C15: the output buffer never holds more than maxKeepLines lines; after N
\* adds, by whichever goroutines, it holds the most recent
\* min(N, maxKeepLines) lines in the order they were added, the oldest having
\* been evicted first.
C15_OutputBounded ==
  /\ Len(lines) <= maxKeepLines
  /\ lines = LastN(appended, maxKeepLines)

\* C15 witness: more lines than the buffer holds were added, the last three
\* being one line of stdout, one of stderr and one system line, and the
\* buffer is full.
C15_Witness ==
  /\ Len(appended) >= maxKeepLines + 2
  /\ Len(lines) = maxKeepLines
  /\ {lines[k].Name : k \in (maxKeepLines - 2)..maxKeepLines} = {"stdout", "stderr", "system"}

\* The last k bytes of s (all of s when shorter).
lastBytes(s, k) == drop(s, len(s) - k)

\* s without its first line as the claim has it: the bytes up to and with
\* the first line end are gone, all bytes when there is no line end.
withoutFirstLine(s) ==
  LET nl == Index(s, "\n") IN IF nl = -1 THEN <<>> ELSE drop(s, nl + 1)

\* s without its first line when it has a line end, else s.
withoutFirstLineIfAny(s) ==
  LET nl == Index(s, "\n") IN IF nl = -1 THEN s ELSE drop(s, nl + 1)

\* C16 (as claimed): before the ring has wrapped String() is the bytes
\* written so far; once more than systemLogSize bytes were written it is
\* "...\n" followed by the last systemLogSize bytes written without their
\* first line; Write returns the length of what it was given.
C16_LogRing ==
  /\ [](~logBuf.full => String(logBuf) = written)
  /\ [](len(written) > systemLogSize
         => String(logBuf) = cat(marker, withoutFirstLine(lastBytes(written, systemLogSize))))
  /\ [][writes' # writes => ntot' = len(written') - len(written)]_vars

\* C16 (amended): as claimed, but the first line is removed only when the
\* last systemLogSize bytes hold a line end; when they hold none, all of
\* them follow the marker.
C16_LogRingAmended ==
  /\ [](~logBuf.full => String(logBuf) = written)
  /\ [](len(written) > systemLogSize
         => String(logBuf) = cat(marker, withoutFirstLineIfAny(lastBytes(written, systemLogSize))))
  /\ [][writes' # writes => ntot' = len(written') - len(written)]_vars

\* C16 witness: more than systemLogSize bytes were written, the ring stands
\* inside its buffer, and the bytes it holds have a line end, so that a first
\* line was removed.
C16_Witness ==
  /\ len(written) > systemLogSize
  /\ logBuf.full /\ logBuf.i > 0
  /\ Index(lastBytes(written, systemLogSize), "\n") > 0

\* C17: whatever the interleaving of GetOrMakeTask, GetTask and GetTasks,
\* of each name NewTask makes at most one Task (so one control loop is
\* started for it), the registry's entry is that Task, every call returns
\* that same Task for the name, and an entry once made stays as it is.
C17_OneTaskPerName ==
  /\ [](\A n \in TaskNames : made[n] <= 1 /\ tasks[n] = made[n])
  /\ [](\A x, y \in given : x[1] = y[1] => x[2] = y[2])
  /\ [](\A x \in given : tasks[x[1]] = x[2])
  /\ [][\A n \in TaskNames : tasks[n] # NoTask => tasks'[n] = tasks[n]]_vars

\* C17 witness: a GetOrMakeTask has looked up a name and found the Task an
\* earlier call made and returned, another goroutine standing outside the
\* registry.
C17_Witness ==
  \E c \in Callers :
    /\ rc[c].op = "GetOrMakeTask" /\ rc[c].pc = "unlock" /\ rc[c].t # NoTask
    /\ <<rc[c].name, rc[c].t>> \in given
    /\ made[rc[c].name] = 1
    /\ \E d \in Callers : d # c /\ rc[d].pc = "idle"

\* C18: the loop answers a RunningInstance request with the running instance;
\* a kill request goes on to the kill exactly when that answer is an instance
\* whose pid is the request's pid and the pid is not 0, and is rejected
\* otherwise, the rejection signalling nothing and changing nothing of the
\* task; the kill signals the instance of the answer and no other, also when
\* another instance is running by then, and changes nothing else of the task.
C18_KillMatchesPid ==
  /\ [][\A m \in controlc :
          (m.type = "running" /\ m \notin controlc' /\ LoopRunning(m))
          => resCh' = <<reply("running", running)>>]_vars
  /\ [][(pc = "running" /\ pc' # "running")
        => /\ resCh # <<>>
           /\ pc' = "kill" <=> (/\ resCh[1].val # NoInstance
                                /\ Pid(resCh[1].val) = form
                                /\ form # 0)
           /\ pc' = "kill" => ret'.val = resCh[1].val
           /\ pc' # "kill" => pc' = "idle" /\ ret'.kind = "rejected"
           /\ UNCHANGED <<config, running, failures, inst, supFds, panicked>>]_vars
  /\ [][(pc = "kill" /\ pc' # "kill")
        => /\ form # 0 /\ Pid(ret.val) = form
           /\ \A i \in Instances : i # ret.val => inst'[i] = inst[i]
           /\ inst[ret.val].st = "alive" => inst'[ret.val].killed
           /\ UNCHANGED <<config, running, failures, supFds, panicked>>]_vars

\* C18 witness: a kill request was accepted and has signalled its instance
\* when another instance was running already; that one still runs, not
\* signalled.
C18_Witness ==
  /\ pc = "idle" /\ ret.kind = "kill"
  /\ ret.val.running \notin {NoInstance, ret.val.in}
  /\ running = ret.val.running
  /\ inst[running].st = "alive" /\ ~inst[running].killed

\* The restart procedure on config jc gets past the user check and the ports
\* loop: the user is the current one, no port has a value of the wrong type,
\* none is bound already and the operating system fails no listen and no
\* File call.
ReachesValidate(jc, e) ==
  /\ jc # NoConfig
  /\ Configs[jc].user \in {"", curUser}
  /\ Configs[jc].badPort = ""
  /\ e.fault \notin {"listen", "file"}
  /\ \A p \in Configs[jc].ports : ~Held(World, p)

\* The steps after the validation that can fail.
AfterValidation == {"stat", "stdoutpipe", "stderrpipe", "start"}

\* What C19 says of one run of the restart procedure on config jc.
ConfigByStage(jc, e) ==
  /\ ~Configs[jc].valid => config' = NoConfig /\ running' = NoInstance
  /\ (Configs[jc].valid /\ e.fault \in AfterValidation)
       => /\ config' = jc
          /\ running' = NoInstance
          /\ status([config |-> config', running |-> running']) = "not running; valid config"
          /\ Created' = Created

\* C19: when the restart procedure fails at the validation the task is left
\* without config; when it fails after the validation (stat of the binary,
\* creation of a pipe, start of the process) the task holds the validated
\* config and runs nothing, its status being "not running; valid config";
\* and an instance is started only by the step that processes an Update or
\* an exit report.  Put as: no step of the loop whose restart procedure gets
\* to the validation ends otherwise.
C19_ConfigByFailureStage ==
  /\ [][\A m \in controlc :
          (cm' = m /\ m \notin controlc')
          => /\ m.type = "update"
                => \A e \in EnvsOf(ReadFile(m.tf).jc) :
                     (ReachesValidate(ReadFile(m.tf).jc, e) /\ ~ConfigByStage(ReadFile(m.tf).jc, e))
                     => ~LoopUpdate(m, e)
             /\ m.type = "wait"
                => \A e \in EnvsOf(config) :
                     (ReachesValidate(config, e) /\ ~ConfigByStage(config, e))
                     => ~LoopWait(m, e)]_vars
  /\ [][Created' # Created
        => \E m \in controlc :
             m.type \in {"update", "wait"} /\ cm' = m /\ m \notin controlc']_vars

\* C19 witness: the task holds a config it got from an Update and has never
\* started an instance: the spawn failed after the validation.
C19_Witness ==
  /\ cm.type = "update"
  /\ config # NoConfig /\ running = NoInstance
  /\ Created = {}
  /\ status(World) = "not running; valid config"

\* An error is met in the ports loop of the restart procedure on config jc,
\* which the user check lets through: a port has a value of the wrong type,
\* a port is bound already or the listen fails, or the File call fails.
PortError(jc, e) ==
  /\ jc # NoConfig
  /\ Configs[jc].user \in {"", curUser}
  /\ \/ Configs[jc].badPort \in Configs[jc].ports
     \/ \E p \in Configs[jc].ports : Held(World, p)
     \/ (e.fault \in {"listen", "file"} /\ Configs[jc].ports # {})

\* What C20 says of one run of the restart procedure.
SpawnAborted ==
  /\ Created' = Created
  /\ running' = NoInstance
  /\ ~panicked'
  /\ running # NoInstance => inst'[running].killed \/ inst'[running].st # "alive"

\* C20: when the restart procedure meets an error in acquiring a port (value
\* of the wrong type, bind failure, failure to get the descriptor), no
\* process is started, nothing runs afterwards, the supervisor lives on, and
\* the instance that ran before has been sent SIGKILL (unless its process had
\* terminated already: it is its exit report that is being processed).  Put
\* as: no step of the loop that meets such an error ends otherwise.
C20_PortErrorAbortsSpawn ==
  [][\A m \in controlc :
       (cm' = m /\ m \notin controlc' /\ ~SpawnAborted)
       => /\ m.type = "update"
             => \A e \in EnvsOf(ReadFile(m.tf).jc) :
                  PortError(ReadFile(m.tf).jc, e) => ~LoopUpdate(m, e)
          /\ m.type = "wait"
             => \A e \in EnvsOf(config) :
                  PortError(config, e) => ~LoopWait(m, e)]_vars

\* C20 witness: the loop's last message was an Update whose config has a port
\* value of the wrong type; the instance that ran before was sent SIGKILL and
\* has not yet terminated, nothing runs and the supervisor lives.
C20_Witness ==
  /\ cm.type = "update" /\ cm.tf = "badport"
  /\ running = NoInstance /\ ~panicked
  /\ \E i \in Instances : inst[i].st = "alive" /\ inst[i].killed

\* The reply channels that hold a reply nobody has read.
Unread == {ch \in Channels : chans[ch] # <<>>}

\* C21: the loop never blocks answering a query: the reply channel of every
\* request waiting on controlc has room for the loop's send (no other request
\* and no other goroutine shares it, and nothing was sent on it before);
\* answering a request is one send on its channel, after which the request is
\* received; and no channel ever gets a second reply or holds more than its
\* capacity.
C21_ReplyNeverBlocks ==
  /\ [](\A m \in controlc :
          m.type \in QueryKinds
          => /\ Len(chans[m.resCh]) < resChCap
             /\ sends[m.resCh] = 0
             /\ Cardinality({c \in Callers : qc[c].pc = "wait" /\ qc[c].ch = m.resCh}) = 1
             /\ Cardinality({x \in controlc : x.type \in QueryKinds /\ x.resCh = m.resCh}) = 1)
  /\ [](\A ch \in Channels : sends[ch] <= 1 /\ Len(chans[ch]) <= resChCap)
  /\ [][\A m \in controlc :
          (m.type \in QueryKinds /\ cm' = m /\ m \notin controlc')
          => /\ sends'[m.resCh] = 1
             /\ chans'[m.resCh] = <<reply(m.type, answer(m.type))>>
             /\ \A ch \in Channels \ {m.resCh} : chans'[ch] = chans[ch]]_vars

\* C21 witness: two callers have not read their replies, which lie in their
\* channels, and the loop has gone on: the message it received last is an
\* Update.
C21_Witness ==
  /\ Cardinality(Unread) >= 2
  /\ \A c \in Callers : qc[c].pc = "wait" /\ qc[c].ch \in Unread
  /\ cm.type = "update"

\* C22 (as claimed): under fair scheduling every Update, Stop, query and exit
\* report waiting on controlc is received by the loop at last, and the caller
\* of a query gets its reply at last.
C22_EveryRequestServed ==
  /\ \A m \in Messages : (m \in controlc) ~> (m \notin controlc)
  /\ (pc = "status") ~> (pc = "idle")

\* The exit reports sent so far for instance i: those waiting on controlc and
\* those the loop has received.
Reports(i) ==
  Cardinality({m \in controlc : m.type = "wait" /\ m.instance = i}) + Count(reported, i)

\* C23: for every instance exactly one exit report has been sent once its
\* process has terminated, and none before: none while the process lives,
\* none for an instance that was never started; an exit report is sent only by
\* the step in which a process terminates, which is no step of the loop and
\* starts nothing, so a run of the restart procedure that starts no process
\* sends none.
C23_OneExitReport ==
  /\ [](\A i \in Instances : Reports(i) = IF inst[i].st = "dead" THEN 1 ELSE 0)
  /\ [][\A x \in controlc' \ controlc :
          x.type = "wait"
          => /\ inst[x.instance].st = "alive" /\ inst'[x.instance].st = "dead"
             /\ cm' = cm /\ Created' = Created]_vars

\* C23 witness: the one instance that was started has terminated and its exit
\* report was received; the restart that followed it was aborted after the
\* validation, and no exit report has come or is waiting for it.
C23_Witness ==
  /\ cm.type = "wait" /\ Created = {cm.instance}
  /\ inst[cm.instance].st = "dead" /\ Count(reported, cm.instance) = 1
  /\ config # NoConfig /\ running = NoInstance
  /\ \A m \in controlc : m.type # "wait"
  /\ Len(reported) = 1

\* C24: no process is leaked: every instance whose process was started and
\* that is not the running instance has terminated or was sent SIGKILL.
C24_NoProcessLeak ==
  \A i \in Instances :
    (inst[i].st # "none" /\ i # running) => (inst[i].st = "dead" \/ inst[i].killed)

\* C24 witness: beside the running instance, whose process lives unsignalled,
\* two instances were started before: one has terminated, the other was sent
\* SIGKILL and has not yet terminated.
C24_Witness ==
  /\ running # NoInstance /\ inst[running].st = "alive" /\ ~inst[running].killed
  /\ \E i, j \in Instances \ {running} :
       /\ inst[i].st = "dead"
       /\ inst[j].st = "alive" /\ inst[j].killed

\* C25: the step of the loop that processes a Stop leaves config as it was;
\* and when the exit report of an instance killed by a Stop is processed while
\* the task holds a config and the spawn succeeds, that same step starts a new
\* instance and makes it the running one: the step of an exit report, no
\* Update.
C25_StopDoesNotHoldDown ==
  /\ [][\A m \in controlc :
          (m.type = "stop" /\ cm' = m /\ m \notin controlc') => config' = config]_vars
  /\ [][\A m \in controlc :
          (/\ m.type = "wait" /\ cm' = m /\ m \notin controlc'
           /\ m.instance \in stopped
           /\ config # NoConfig
           /\ ~(/\ running' \notin {NoInstance, running}
                /\ inst[running'].st = "none" /\ inst'[running'].st = "alive"
                /\ config' = config))
          => \A e \in EnvsOf(config) :
               SpawnSucceeds(World, config, e) => ~LoopWait(m, e)]_vars

\* C25 witness: the loop's last message was the exit report of instance 1,
\* which a Stop had killed; two instances were started in all and the second
\* is running, so it was this exit report that started it (an Update that
\* had started it before would have seen it killed by the report's restart).
C25_Witness ==
  /\ cm.type = "wait" /\ cm.instance \in stopped
  /\ Created = {cm.instance, running} /\ running # cm.instance
  /\ inst[running].st = "alive" /\ ~inst[running].killed
  /\ config # NoConfig

\* C26: the running instance has no entry in the failure history, and no
\* instance has more than one.
C26_RunningNotInFailures ==
  /\ running # NoInstance => Count(failures, running) = 0
  /\ \A i \in Instances : Count(failures, i) <= 1

\* C26 witness: the failure history holds two instances and a third one is
\* running, started by the restart after the second exit report.
C26_Witness ==
  /\ Len(failures) = 2 /\ failures[1] # failures[2]
  /\ cm.type = "wait" /\ cm.instance = failures[2]
  /\ running # NoInstance /\ inst[running].st = "alive"

\* The variable the restart procedure set for port p: its value, or 0 when
\* env has none.
envOf(p) ==
  LET ks == {k \in 1..Len(spawn.env) : spawn.env[k].name = p}
  IN IF ks = {} THEN 0 ELSE spawn.env[CHOOSE k \in ks : TRUE].val

\* C27: when the restart procedure starts the child of a config with k ports
\* the child inherits exactly k descriptors, 3 to 3+k-1; the port processed
\* i-th (i from 0) has its variable set to 3+i, once, and descriptor 3+i of
\* the child is that port's socket; the ports have different numbers.  While
\* the loop runs, every variable set so far is the position of its port's
\* file in extraFiles plus 3.
C27_PortDescriptors ==
  /\ \A k \in 1..Len(spawn.extraFiles) :
       /\ spawn.extraFiles[k] = spawn.order[k]
       /\ envOf(spawn.order[k]) = 3 + (k - 1)
       /\ Cardinality({j \in 1..Len(spawn.env) : spawn.env[j].name = spawn.order[k]}) = 1
  /\ spawn.pc = "started"
       => /\ Len(spawn.extraFiles) = Len(spawn.order)
          /\ DOMAIN spawn.child = 3..(2 + Len(spawn.order))
          /\ \A i \in 0..(Len(spawn.order) - 1) :
               /\ envOf(spawn.order[i + 1]) = 3 + i
               /\ spawn.child[3 + i] = spawn.order[i + 1]
          /\ \A p, q \in PortPool :
               (p # q /\ envOf(p) # 0 /\ envOf(q) # 0) => envOf(p) # envOf(q)
  /\ spawn.pc # "started" => spawn.child = <<>>

\* C27 witness: the child of a config with three ports was started, the ports
\* having been visited in an order other than that of their names.
C27_Witness ==
  /\ spawn.pc = "started"
  /\ Len(spawn.order) = 3
  /\ spawn.order[1] > spawn.order[2]
  /\ DOMAIN spawn.child = 3..5

\* The Lines of stream name in a list of Lines, in the order of the list.
OfStream(ls, name) ==
  LET isOf(l) == l.Name = name IN SelectSeq(ls, isOf)

\* The lines of each stream in the order its reader reads them.
InReadOrder ==
  [name \in Streams |-> [k \in 1..(maxKeepLines + MaxAdds) |-> Line(name, k)]]

\* The number of lines the reader of stream name has added.
Added(name) == pipes[name].read - (IF pipes[name].held THEN 1 ELSE 0)

\* C28: the lines a reader has read and added were added in the order it read
\* them, each once, whatever the other reader and the system lines did in
\* between; the buffer holds the lines added last, so what it holds of a
\* stream is the lines the reader added last, in read order and without gap
\* or repetition: only the oldest lines are missing, evicted at capacity.
C28_PerReaderOrder ==
  /\ \A name \in Streams :
       /\ OfStream(appended, name) = SubSeq(InReadOrder[name], 1, Added(name))
       /\ LET own == OfStream(lines, name)
          IN own = SubSeq(InReadOrder[name], Added(name) - Len(own) + 1, Added(name))
  /\ lines = LastN(appended, maxKeepLines)
  /\ Len(appended) - Len(lines) = IF Len(appended) > maxKeepLines
                                    THEN Len(appended) - maxKeepLines ELSE 0

\* C28 witness: the buffer is full and has evicted lines; a line of stderr
\* was added between two lines of stdout that stdout's reader read after it,
\* and stderr's reader holds a line it has not yet added.
C28_Witness ==
  /\ Len(appended) > maxKeepLines /\ Len(lines) = maxKeepLines
  /\ pipes["stderr"].held /\ pipes["stderr"].read = 2
  /\ lines[maxKeepLines - 2].Name = "stdout"
  /\ lines[maxKeepLines - 1].Name = "stderr"
  /\ lines[maxKeepLines].Name = "stdout"

====
